---- MODULE Spec2Model ----
(***************************************************************************)
(* Model of src/filesystem/impls/node/node/NodeFileSystemDomain.js: the    *)
(* "fileSystem" node domain of Brackets (readdir, readFile, watchPath,     *)
(* unwatchPath, unwatchAll and the "change" event).                        *)
(*                                                                         *)
(* Node runs the domain on one thread: every command handler and every     *)
(* callback runs to completion, so each is one action of the model.        *)
(***************************************************************************)
EXTENDS Integers, Sequences, FiniteSets, TLC

\* Number of native watch handles fs.watch may hand out in one run.
MaxHandles == 3

\* Number of child names a directory listing may hold.
MaxNames == 3

\* Number of bytes a file read by readFile may hold.
MaxLen == 2

VARIABLES
    _watcherMap,    \* path -> watcher (var _watcherMap = {}), NoWatcher when absent
    handles,        \* the FSWatcher objects fs.watch has returned, with the
                    \* `path` their listeners close over
    closeCalls,     \* per watcher, how many times close() was called on it
    emitted,        \* _domainManager.emitEvent calls made by the last step
    console,        \* console.warn / console.error calls made by the last step
    stopped,        \* per path: an unwatchPath/unwatchAll command has completed
                    \* and no watchPath command on the path was issued since
    teardown,       \* per path: the watcher registered by the latest watchPath
                    \* command on it, and which of an unwatchPath call and an
                    \* error of that watcher have happened since
    last,           \* the command or callback that ran last, with its inputs
    rd,             \* the readdir call in progress
    rf              \* the readFile call in progress

watchVars == <<_watcherMap, handles, closeCalls, emitted, console, stopped, teardown, last>>
vars == <<_watcherMap, handles, closeCalls, emitted, console, stopped, teardown, last, rd, rf>>

----------------------------------------------------------------------------
(* Watch registry *)

\* Absolute paths the client asks to watch.
Paths == {"/tmp/d", "/tmp/f"}

Handles == 1..MaxHandles

\* _watcherMap[path] of a path that is no own property of the map.
NoWatcher == 0

\* What the OS passes to an fs.watch listener.
EventKinds == {"rename", "change"}
Filenames == {"x", "null"}

\* watcher.close() either returns, or throws; when it throws the native handle
\* may or may not have been released.
CloseOutcomes == {"ok", "throwKept", "throwReleased"}

NoPath == ""

FreeHandle == [state |-> "free", path |-> NoPath]

IsOpen(hs, h) == hs[h].state = "open"

\* The registry as the handlers see and change it.
Registry ==
    [map |-> _watcherMap, handles |-> handles, closeCalls |-> closeCalls,
     console |-> <<>>, emitted |-> <<>>, raised |-> FALSE]

\* _watcherMap.hasOwnProperty(path)
hasOwnProperty(map, path) == map[path] # NoWatcher

\* watcher.close(): the native handle after the call, and whether it threw.
close(hs, watcher, outcome) ==
    [handles |-> IF outcome = "throwKept"
                 THEN hs
                 ELSE [hs EXCEPT ![watcher].state = "closed"],
     threw |-> outcome # "ok"]

\* A variant of unwatchPath that keeps the entry when close() throws.
unwatchPathKeepOnThrow(R, path, outcome) ==
    LET watcher == R.map[path] IN
    IF watcher # NoWatcher
    THEN LET c == close(R.handles, watcher, outcome) IN
         [R EXCEPT !.handles = c.handles,
                   !.closeCalls[watcher] = @ + 1,
                   !.console = IF c.threw
                               THEN Append(@, [level |-> "warn", path |-> path])
                               ELSE @,
                   !.map[path] = IF c.threw THEN @ ELSE NoWatcher]
    ELSE R

\* A variant of unwatchPath without the `if (watcher)` test: close() is called
\* on whatever the lookup gives, and throws when that is no watcher.
unwatchPathNoGuard(R, path, outcome) ==
    LET watcher == R.map[path] IN
    IF watcher # NoWatcher
    THEN LET c == close(R.handles, watcher, outcome) IN
         [R EXCEPT !.handles = c.handles,
                   !.closeCalls[watcher] = @ + 1,
                   !.console = IF c.threw
                               THEN Append(@, [level |-> "warn", path |-> path])
                               ELSE @,
                   !.map[path] = NoWatcher]
    ELSE [R EXCEPT !.console = Append(@, [level |-> "warn", path |-> path])]

\* A variant of unwatchPath with try/finally and no catch clause: the error
\* of close() reaches the caller.
unwatchPathNoCatch(R, path, outcome) ==
    LET watcher == R.map[path] IN
    IF watcher # NoWatcher
    THEN LET c == close(R.handles, watcher, outcome) IN
         [R EXCEPT !.handles = c.handles,
                   !.closeCalls[watcher] = @ + 1,
                   !.raised = c.threw,
                   !.map[path] = NoWatcher]
    ELSE R

\* function unwatchPath(path)
unwatchPath(R, path, outcome) ==
    LET watcher == R.map[path] IN
    IF watcher # NoWatcher                                   \* if (watcher)
    THEN LET c == close(R.handles, watcher, outcome) IN      \* try { watcher.close() }
         [R EXCEPT !.handles = c.handles,
                   !.closeCalls[watcher] = @ + 1,
                   !.console = IF c.threw                    \* catch: console.warn
                               THEN Append(@, [level |-> "warn", path |-> path])
                               ELSE @,
                   !.map[path] = NoWatcher]                  \* finally: delete
    ELSE R

\* The watcher fs.watch returns next.
NewWatcher(hs) == CHOOSE h \in Handles :
    /\ hs[h].state = "free"
    /\ \A g \in Handles : hs[g].state = "free" => h <= g

\* A variant of watchPath without the hasOwnProperty early return.
watchPathNoGuard(R, path, watchThrows) ==
    IF watchThrows \/ \A h \in Handles : R.handles[h].state # "free"
    THEN [R EXCEPT !.console = Append(@, [level |-> "warn", path |-> path])]
    ELSE LET watcher == NewWatcher(R.handles) IN
         [R EXCEPT !.handles[watcher] = [state |-> "open", path |-> path],
                   !.map[path] = watcher]

\* A variant of watchPath without the try/catch around fs.watch.
watchPathNoCatch(R, path, watchThrows) ==
    IF R.map[path] # NoWatcher
    THEN R
    ELSE IF watchThrows
    THEN [R EXCEPT !.raised = TRUE]
    ELSE LET watcher == NewWatcher(R.handles) IN
         [R EXCEPT !.handles[watcher] = [state |-> "open", path |-> path],
                   !.map[path] = watcher]

\* function watchPath(path)
watchPath(R, path, watchThrows) ==
    IF hasOwnProperty(R.map, path)
    THEN R                                                   \* return
    ELSE IF watchThrows                                      \* fs.watch threw
    THEN [R EXCEPT !.console = Append(@, [level |-> "warn", path |-> path])]
    ELSE LET watcher == NewWatcher(R.handles) IN             \* fs.watch(path, ...)
         [R EXCEPT !.handles[watcher] = [state |-> "open", path |-> path],
                   !.map[path] = watcher]                    \* _watcherMap[path] = watcher

RECURSIVE unwatchAllFrom(_, _, _)
\* The for-in loop of unwatchAll over the keys still to visit.
unwatchAllFrom(R, keys, outcomes) ==
    IF keys = {}
    THEN R
    ELSE LET path == CHOOSE p \in keys : TRUE IN
         unwatchAllFrom(
             IF hasOwnProperty(R.map, path)
             THEN unwatchPath(R, path, outcomes[path])
             ELSE R,
             keys \ {path}, outcomes)

\* function unwatchAll()
unwatchAll(R, outcomes) ==
    unwatchAllFrom(R, {p \in Paths : hasOwnProperty(R.map, p)}, outcomes)

\* The listener given to fs.watch: the event it emits on the fileSystem domain.
changeListener(hs, h, event, filename) ==
    [path |-> hs[h].path, event |-> event, filename |-> filename]

\* A variant of the "error" listener that logs and leaves the watch in place.
errorListenerLogOnly(R, h, outcome) ==
    [R EXCEPT !.console = Append(@, [level |-> "error", path |-> R.handles[h].path])]

\* A variant of the "error" listener that deletes the entry without closing.
errorListenerDeleteOnly(R, h, outcome) ==
    [R EXCEPT !.console = Append(@, [level |-> "error", path |-> R.handles[h].path]),
              !.map[R.handles[h].path] = NoWatcher]

\* A variant of the "error" listener that closes the watcher that reported
\* the error and deletes the entry of its path.
errorListenerCloseSelf(R, h, outcome) ==
    LET c == close(R.handles, h, outcome) IN
    [R EXCEPT !.console = Append(@, [level |-> "error", path |-> R.handles[h].path]),
              !.handles = c.handles,
              !.closeCalls[h] = @ + 1,
              !.map[R.handles[h].path] = NoWatcher]

\* The watcher's "error" listener: console.error, then unwatchPath(path).
errorListener(R, h, outcome) ==
    unwatchPath(
        [R EXCEPT !.console = Append(@, [level |-> "error", path |-> R.handles[h].path])],
        R.handles[h].path, outcome)

RECURSIVE SeqOfSet(_)
\* The elements of a set of watchers, in increasing order.
SeqOfSet(S) ==
    IF S = {}
    THEN <<>>
    ELSE LET m == CHOOSE x \in S : \A y \in S : x <= y IN
         <<m>> \o SeqOfSet(S \ {m})

\* The native layer runs the listener of every open handle on `path`.
notifyListeners(R, path, event, filename) ==
    LET hs == SeqOfSet({h \in Handles : IsOpen(R.handles, h) /\ R.handles[h].path = path})
    IN [R EXCEPT !.emitted =
            [i \in 1..Len(hs) |-> changeListener(R.handles, hs[i], event, filename)]]

NoTeardown == [watcher |-> NoWatcher, kinds |-> {}]

NoOp == [op |-> "init", path |-> NoPath, watcher |-> NoWatcher,
         event |-> "", filename |-> "", threw |-> FALSE, raised |-> FALSE,
         before |-> [p \in Paths |-> NoWatcher]]

\* Stores what a handler leaves behind.
Commit(R) ==
    /\ _watcherMap' = R.map
    /\ handles' = R.handles
    /\ closeCalls' = R.closeCalls
    /\ console' = R.console
    /\ emitted' = R.emitted

\* The client invokes the watchPath command.
WatchPath(path, watchThrows) ==
    /\ hasOwnProperty(_watcherMap, path) \/ watchThrows
          \/ \E h \in Handles : handles[h].state = "free"
    /\ LET R == watchPath(Registry, path, watchThrows) IN
       /\ Commit(R)
       /\ last' = [NoOp EXCEPT !.op = "watchPath", !.path = path,
                               !.watcher = _watcherMap[path],
                               !.threw = watchThrows /\ _watcherMap[path] = NoWatcher,
                               !.raised = R.raised,
                               !.before = _watcherMap]
    /\ stopped' = [stopped EXCEPT ![path] = FALSE]
    /\ teardown' = [teardown EXCEPT ![path] = [watcher |-> _watcherMap'[path], kinds |-> {}]]
    /\ UNCHANGED <<rd, rf>>

\* The client invokes the unwatchPath command.
UnwatchPath(path, outcome) ==
    /\ LET R == unwatchPath(Registry, path, outcome) IN
       /\ Commit(R)
       /\ last' = [NoOp EXCEPT !.op = "unwatchPath", !.path = path,
                               !.watcher = _watcherMap[path],
                               !.threw = _watcherMap[path] # NoWatcher /\ outcome # "ok",
                               !.raised = R.raised,
                               !.before = _watcherMap]
    /\ stopped' = [stopped EXCEPT ![path] = TRUE]
    /\ teardown' = [teardown EXCEPT ![path].kinds = @ \cup {"unwatch"}]
    /\ UNCHANGED <<rd, rf>>

\* The client invokes the unwatchAll command.
UnwatchAll(outcomes) ==
    /\ LET R == unwatchAll(Registry, outcomes) IN
       /\ Commit(R)
       /\ last' = [NoOp EXCEPT !.op = "unwatchAll",
                               !.threw = \E p \in Paths :
                                   _watcherMap[p] # NoWatcher /\ outcomes[p] # "ok",
                               !.raised = R.raised,
                               !.before = _watcherMap]
    /\ stopped' = [p \in Paths |-> TRUE]
    /\ teardown' = [p \in Paths |->
                        IF _watcherMap[p] # NoWatcher
                        THEN [teardown[p] EXCEPT !.kinds = @ \cup {"unwatch"}]
                        ELSE teardown[p]]
    /\ UNCHANGED <<rd, rf>>

\* The OS reports one change on a path: the listener of every open native
\* handle on that path runs.
FsChange(path, event, filename) ==
    /\ LET R == notifyListeners(Registry, path, event, filename) IN
       /\ Commit(R)
       /\ last' = [NoOp EXCEPT !.op = "fsChange", !.path = path,
                               !.watcher = _watcherMap[path],
                               !.event = event, !.filename = filename,
                               !.raised = R.raised,
                               !.before = _watcherMap]
    /\ UNCHANGED <<stopped, teardown, rd, rf>>

\* An open native handle reports an asynchronous error: its "error" listener
\* runs.  The runtime may have released the handle before reporting.
WatcherError(h, released, outcome) ==
    /\ IsOpen(handles, h)
    /\ LET R0 == [Registry EXCEPT !.handles[h].state =
                                     IF released THEN "closed" ELSE @]
           R == errorListener(R0, h, outcome)
       IN /\ Commit(R)
          /\ last' = [NoOp EXCEPT !.op = "watcherError", !.path = handles[h].path,
                                  !.watcher = h,
                                  !.threw = _watcherMap[handles[h].path] # NoWatcher
                                               /\ outcome # "ok",
                                  !.raised = R.raised,
                                  !.before = _watcherMap]
    /\ teardown' = [p \in Paths |->
                        IF teardown[p].watcher = h
                        THEN [teardown[p] EXCEPT !.kinds = @ \cup {"error"}]
                        ELSE teardown[p]]
    /\ UNCHANGED <<stopped, rd, rf>>

NextWatch ==
    \/ \E path \in Paths, watchThrows \in BOOLEAN : WatchPath(path, watchThrows)
    \/ \E path \in Paths, outcome \in CloseOutcomes : UnwatchPath(path, outcome)
    \/ \E outcomes \in [Paths -> CloseOutcomes] : UnwatchAll(outcomes)
    \/ \E path \in Paths, event \in EventKinds, filename \in Filenames :
          FsChange(path, event, filename)
    \/ \E h \in Handles, released \in BOOLEAN, outcome \in CloseOutcomes :
          WatcherError(h, released, outcome)

----------------------------------------------------------------------------

(* Promises *)

PendingPromise == [state |-> "pending", value |-> <<>>, reason |-> "null"]
Fulfilled(v) == [state |-> "fulfilled", value |-> v, reason |-> "null"]
Rejected(e) == [state |-> "rejected", value |-> <<>>, reason |-> e]

\* .nodeify(callback): the arguments the callback is called with.
nodeify(promise) ==
    IF promise.state = "rejected"
    THEN [err |-> promise.reason, hasResult |-> FALSE, result |-> <<>>]
    ELSE [err |-> "null", hasResult |-> TRUE, result |-> promise.value]

----------------------------------------------------------------------------
(* Directory lister *)

\* Child names a directory may list.
Names == {"a", "b", "c", "e"}

\* The arguments readdir is called with: one directory, named without and
\* with a trailing separator.
DirPaths == {"/tmp/d", "/tmp/d/"}

\* The separator the file system puts between a directory and a child name.
Separator == "/"

\* What fs.stat answers for the paths that exist: the children of /tmp/d and
\* its sibling /tmp/da.  Any other path has no file.
FileTable ==
    ("/tmp/d/a" :> [isDirectory |-> FALSE, mtime |-> 1000, size |-> 10]) @@
    ("/tmp/d/b" :> [isDirectory |-> FALSE, mtime |-> 2000, size |-> 20]) @@
    ("/tmp/d/c" :> [isDirectory |-> TRUE, mtime |-> 3000, size |-> 4096]) @@
    ("/tmp/d/e" :> [isDirectory |-> FALSE, mtime |-> 4000, size |-> 0]) @@
    ("/tmp/da" :> [isDirectory |-> FALSE, mtime |-> 5000, size |-> 99])

\* The directory a readdir argument names, without a trailing separator.
Directory(path) == IF path \in {"/tmp/d", "/tmp/d/"} THEN "/tmp/d" ELSE path

\* The path of child `name` of the directory `path` names.
ChildPath(path, name) == Directory(path) \o Separator \o name

\* The listings fs.readdir can answer: distinct names, in any order.
Listings ==
    {names \in UNION {[1..n -> Names] : n \in 0..MaxNames} :
        \A i, j \in DOMAIN names : i # j => names[i] # names[j]}

\* function _addStats(obj, stats)
_addStats(obj, stats) ==
    [isFile |-> ~stats.isDirectory, mtime |-> stats.mtime, size |-> stats.size] @@ obj

\* A variant of statTarget that puts the separator between directory and name.
statTargetWithSeparator(path, name) == ChildPath(path, name)

\* The path readdirCmd stats for a child: [path, name].join("")
statTarget(path, name) == path \o name

Pending == [state |-> "pending"]

RECURSIVE reduceInOrder(_, _, _, _)
\* A variant of the aggregation that collects the entries in the order the
\* stats completed.
reduceInOrder(names, inspectors, order, total) ==
    IF order = <<>>
    THEN total
    ELSE reduceInOrder(names, inspectors, Tail(order),
             IF inspectors[Head(order)].state = "fulfilled"
             THEN Append(total, _addStats([name |-> names[Head(order)]],
                                          inspectors[Head(order)].value))
             ELSE total)

RECURSIVE reduceFrom(_, _, _, _)
\* inspectors.reduce(function (total, inspector, index) {...}, []) from `index` on
reduceFrom(names, inspectors, index, total) ==
    IF index > Len(inspectors)
    THEN total
    ELSE reduceFrom(names, inspectors, index + 1,
             IF inspectors[index].state = "fulfilled"        \* inspector.isFulfilled()
             THEN Append(total, _addStats([name |-> names[index]],
                                          inspectors[index].value))
             ELSE total)

\* A variant of the aggregation that follows completion order.
aggregateInCompletionOrder(names, inspectors, order) ==
    reduceInOrder(names, inspectors, order, <<>>)

\* The entries readdirCmd answers once every stat has settled.
aggregate(names, inspectors, order) == reduceFrom(names, inspectors, 1, <<>>)

\* A variant of settle that is fulfilled as soon as one promise has settled.
settleAny(inspectors) ==
    inspectors = <<>> \/ \E i \in DOMAIN inspectors : inspectors[i].state # "pending"

\* Promise.settle(statPromises) is fulfilled: every promise has settled.
settle(inspectors) == \A i \in DOMAIN inspectors : inspectors[i].state # "pending"

RdIdle ==
    [pc |-> "idle", path |-> NoPath, listed |-> "pending", names |-> <<>>,
     targets |-> <<>>, inspectors |-> <<>>, order |-> <<>>, callback |-> <<>>]

\* A variant of the chain that answers an empty listing when the directory
\* cannot be listed.
onListingRejectedAsEmpty(call, reason) ==
    [call EXCEPT !.pc = "done", !.callback = Append(@, nodeify(Fulfilled(<<>>)))]

\* The chain of readdirCmd when fs.readdirAsync is rejected: the then handler
\* is skipped and nodeify hands the rejection to the callback.
onListingRejected(call, reason) ==
    [call EXCEPT !.pc = "done", !.callback = Append(@, nodeify(Rejected(reason)))]

\* The client invokes the readdir command: fs.readdirAsync(path) is issued.
ReaddirCmd(path) ==
    /\ rd.pc \in {"idle", "done"}
    /\ rd' = [RdIdle EXCEPT !.pc = "listing", !.path = path]
    /\ UNCHANGED <<watchVars, rf>>

\* fs.readdirAsync is fulfilled with the names: one fs.statAsync is issued
\* per name and Promise.settle waits for them all.
ReaddirListed(names) ==
    /\ rd.pc = "listing"
    /\ rd' = [rd EXCEPT !.pc = "stating", !.listed = "fulfilled", !.names = names,
                        !.targets = [i \in DOMAIN names |-> statTarget(rd.path, names[i])],
                        !.inspectors = [i \in DOMAIN names |-> Pending]]
    /\ UNCHANGED <<watchVars, rf>>

\* fs.readdirAsync is rejected: nodeify hands the error to the callback.
ReaddirFailed ==
    /\ rd.pc = "listing"
    /\ rd' = onListingRejected([rd EXCEPT !.listed = "rejected"], "readdir")
    /\ UNCHANGED <<watchVars, rf>>

\* One fs.statAsync settles: fulfilled with the stats of the file at the path
\* it was given, or rejected (no such file, or any other failure).
StatSettled(i, fulfilled) ==
    /\ rd.pc = "stating"
    /\ i \in DOMAIN rd.inspectors
    /\ rd.inspectors[i].state = "pending"
    /\ fulfilled => rd.targets[i] \in DOMAIN FileTable
    /\ rd' = [rd EXCEPT !.inspectors[i] =
                            IF fulfilled
                            THEN [state |-> "fulfilled", value |-> FileTable[rd.targets[i]]]
                            ELSE [state |-> "rejected"],
                        !.order = Append(@, i)]
    /\ UNCHANGED <<watchVars, rf>>

\* Promise.settle is fulfilled: the inspectors are reduced to the entries and
\* nodeify hands them to the callback.
ReaddirSettled ==
    /\ rd.pc = "stating"
    /\ settle(rd.inspectors)
    /\ rd' = [rd EXCEPT !.pc = "done",
                        !.callback = Append(@, nodeify(Fulfilled(
                            aggregate(rd.names, rd.inspectors, rd.order))))]
    /\ UNCHANGED <<watchVars, rf>>

NextReaddir ==
    \/ \E path \in DirPaths : ReaddirCmd(path)
    \/ \E names \in Listings : ReaddirListed(names)
    \/ ReaddirFailed
    \/ \E i \in 1..MaxNames, fulfilled \in BOOLEAN : StatSettled(i, fulfilled)
    \/ ReaddirSettled

----------------------------------------------------------------------------

(* File reader *)

\* The files readFile is called on.
FilePaths == {"/tmp/d/a", "/tmp/d/e"}

\* The byte values a file may hold: "A", and the two bytes of U+00E9 in utf8.
Bytes == {65, 195, 169}

\* The contents a file may have.
Contents == UNION {[1..n -> Bytes] : n \in 0..MaxLen}

\* The encoding names the client may pass; "bogus" names no encoding.
Encodings == {"utf8", "binary", "bogus"}

\* The code point that stands for bytes that are no utf8.
ReplacementChar == 65533

RECURSIVE Utf8Decode(_)
\* The characters of a byte sequence read as utf8 (one- and two-byte forms).
Utf8Decode(bytes) ==
    IF bytes = <<>>
    THEN <<>>
    ELSE IF bytes[1] < 128
    THEN <<bytes[1]>> \o Utf8Decode(Tail(bytes))
    ELSE IF /\ bytes[1] >= 194 /\ bytes[1] <= 223 /\ Len(bytes) >= 2
            /\ bytes[2] >= 128 /\ bytes[2] <= 191
    THEN <<(bytes[1] - 192) * 64 + (bytes[2] - 128)>> \o Utf8Decode(Tail(Tail(bytes)))
    ELSE <<ReplacementChar>> \o Utf8Decode(Tail(bytes))

\* buffer.toString(encoding): the characters, or a throw on an unknown encoding.
BufferToString(bytes, encoding) ==
    IF encoding = "binary"
    THEN [threw |-> FALSE, value |-> [i \in DOMAIN bytes |-> bytes[i]]]
    ELSE IF encoding = "utf8"
    THEN [threw |-> FALSE, value |-> Utf8Decode(bytes)]
    ELSE [threw |-> TRUE, value |-> <<>>]

\* What fs.readFile answers for a file of these bytes: a Buffer when
\* options.encoding is null, else the string buffer.toString(options.encoding).
fsReadFile(bytes, options) ==
    IF options.encoding = "null"
    THEN [type |-> "Buffer", bytes |-> bytes, chars |-> <<>>]
    ELSE [type |-> "string", bytes |-> <<>>,
          chars |-> BufferToString(bytes, options.encoding).value]

\* data.toString(encoding): String.prototype.toString takes no argument and
\* answers the string; Buffer.prototype.toString decodes.
toString(data, encoding) ==
    IF data.type = "string"
    THEN [threw |-> FALSE, value |-> data.chars]
    ELSE BufferToString(data.bytes, encoding)

\* The options readFileCmd passes to fs.readFileAsync.
readOptions == [encoding |-> "binary"]

\* Promise.join(readPromise, statPromise) once the promises named in `order`
\* have settled, in that order: rejected with the first rejection, fulfilled
\* with both values once both are fulfilled.
join(readPromise, statPromise, order) ==
    LET P(k) == IF order[k] = "read" THEN readPromise ELSE statPromise
        bad == {k \in DOMAIN order : P(k).state = "rejected"}
    IN IF bad # {}
       THEN Rejected(P(CHOOSE k \in bad : \A j \in bad : k <= j).reason)
       ELSE IF Len(order) = 2
       THEN Fulfilled(<<readPromise.value, statPromise.value>>)
       ELSE PendingPromise

\* .spread(function (data, stats) {...}): the promise it answers.
spread(joined, encoding) ==
    IF joined.state # "fulfilled"
    THEN joined
    ELSE LET filteredData == toString(joined.value[1], encoding) IN
         IF filteredData.threw
         THEN Rejected("decode")
         ELSE Fulfilled(_addStats([data |-> filteredData.value], joined.value[2]))

RfIdle ==
    [pc |-> "idle", path |-> NoPath, encoding |-> "", content |-> <<>>,
     read |-> PendingPromise, stat |-> PendingPromise, order |-> <<>>,
     callback |-> <<>>]

\* A variant of the chain that calls the callback at every settlement that
\* finds the joined promise settled.
readFileChainEachSettle(call) ==
    LET joined == join(call.read, call.stat, call.order)
    IN IF joined.state # "pending"
       THEN [call EXCEPT !.pc = "called",
                         !.callback = Append(@, nodeify(spread(joined, call.encoding)))]
       ELSE call

\* The promise chain of readFileCmd after a sub-operation has settled: the
\* callback is called when the joined promise settles, once.
readFileChain(call) ==
    LET joined == join(call.read, call.stat, call.order)
        before == join(call.read, call.stat, SubSeq(call.order, 1, Len(call.order) - 1))
    IN IF joined.state # "pending" /\ before.state = "pending"
       THEN [call EXCEPT !.pc = "called",
                         !.callback = Append(@, nodeify(spread(joined, call.encoding)))]
       ELSE call

\* The client invokes the readFile command: the read and the stat are issued.
ReadFileCmd(path, encoding) ==
    /\ \/ rf.pc = "idle"
       \/ rf.pc = "called" /\ rf.read.state # "pending" /\ rf.stat.state # "pending"
    /\ rf' = [RfIdle EXCEPT !.pc = "running", !.path = path, !.encoding = encoding]
    /\ UNCHANGED <<watchVars, rd>>

\* fs.readFileAsync settles: fulfilled with the file's content, or rejected.
ReadSettled(fulfilled, bytes) ==
    /\ rf.pc \in {"running", "called"}
    /\ rf.read.state = "pending"
    /\ rf' = readFileChain(
                [rf EXCEPT !.read = IF fulfilled
                                    THEN Fulfilled(fsReadFile(bytes, readOptions))
                                    ELSE Rejected("read"),
                           !.content = IF fulfilled THEN bytes ELSE @,
                           !.order = Append(@, "read")])
    /\ UNCHANGED <<watchVars, rd>>

\* fs.statAsync settles: fulfilled with the file's stats, or rejected.
FileStatSettled(fulfilled) ==
    /\ rf.pc \in {"running", "called"}
    /\ rf.stat.state = "pending"
    /\ rf' = readFileChain(
                [rf EXCEPT !.stat = IF fulfilled
                                    THEN Fulfilled(FileTable[rf.path])
                                    ELSE Rejected("stat"),
                           !.order = Append(@, "stat")])
    /\ UNCHANGED <<watchVars, rd>>

NextReadFile ==
    \/ \E path \in FilePaths, encoding \in Encodings : ReadFileCmd(path, encoding)
    \/ \E fulfilled \in BOOLEAN, bytes \in Contents : ReadSettled(fulfilled, bytes)
    \/ \E fulfilled \in BOOLEAN : FileStatSettled(fulfilled)

----------------------------------------------------------------------------

Next == NextWatch \/ NextReaddir \/ NextReadFile

Init ==
    /\ _watcherMap = [p \in Paths |-> NoWatcher]
    /\ handles = [h \in Handles |-> FreeHandle]
    /\ closeCalls = [h \in Handles |-> 0]
    /\ emitted = <<>>
    /\ console = <<>>
    /\ stopped = [p \in Paths |-> FALSE]
    /\ teardown = [p \in Paths |-> NoTeardown]
    /\ last = NoOp
    /\ rd = RdIdle
    /\ rf = RfIdle

SpecWatch == Init /\ [][NextWatch]_vars

SpecReaddir == Init /\ [][NextReaddir]_vars

\* The OS completes every request it was given and the event loop runs every
\* continuation that is ready.
ListingCompletes == (\E names \in Listings : ReaddirListed(names)) \/ ReaddirFailed
StatCompletes == \E i \in 1..MaxNames, fulfilled \in BOOLEAN : StatSettled(i, fulfilled)

SpecReaddirFair ==
    /\ Init
    /\ [][NextReaddir]_vars
    /\ WF_vars(ListingCompletes)
    /\ WF_vars(StatCompletes)
    /\ WF_vars(ReaddirSettled)

SpecReadFile == Init /\ [][NextReadFile]_vars

Spec == Init /\ [][Next]_vars

----------------------------------------------------------------------------
(* Properties *)

OpenHandlesOn(path) == {h \in Handles : IsOpen(handles, h) /\ handles[h].path = path}

\* C1: watchPath(p) on a path that is already registered changes nothing: no
\* native handle is created and p's entry still refers to the same watcher.
C1_WatchPathIdempotent ==
    [][(last'.op = "watchPath" /\ _watcherMap[last'.path] # NoWatcher)
          => /\ _watcherMap' = _watcherMap
             /\ handles' = handles
             /\ closeCalls' = closeCalls]_vars

\* watchPath was called on a registered path, with a free handle to spare.
C1_Witness ==
    /\ last.op = "watchPath"
    /\ last.before[last.path] # NoWatcher
    /\ _watcherMap[last.path] = last.before[last.path]
    /\ \E h \in Handles : handles[h].state = "free"

\* C2: once unwatchPath(p) or unwatchAll() has completed, no change event
\* with path p is emitted until watchPath(p) is called again.
C2_NoEventAfterUnwatch ==
    \A i \in DOMAIN emitted : ~stopped[emitted[i].path]

\* C3: unwatchAll() leaves the registry empty and has called close() on every
\* watcher that was registered, whether or not close() threw.
C3_UnwatchAllEmpties ==
    [][last'.op = "unwatchAll"
          => /\ \A p \in Paths : _watcherMap'[p] = NoWatcher
             /\ \A p \in Paths : _watcherMap[p] # NoWatcher
                   => closeCalls'[_watcherMap[p]] = closeCalls[_watcherMap[p]] + 1]_vars

\* unwatchAll ran with every path registered and some close() throwing.
C3_Witness ==
    /\ last.op = "unwatchAll"
    /\ last.threw
    /\ \A p \in Paths : last.before[p] # NoWatcher /\ closeCalls[last.before[p]] = 1
    /\ \A p \in Paths : _watcherMap[p] = NoWatcher

\* C4: at most one open native watch handle per path.
C4_OneOpenHandlePerPath ==
    \A p \in Paths : Cardinality(OpenHandlesOn(p)) <= 1

\* C5: no dangling handles: every registry entry refers to an open handle and
\* every open handle is the registry's entry for its path.
C5_NoDanglingHandles ==
    /\ \A p \in Paths : _watcherMap[p] # NoWatcher => IsOpen(handles, _watcherMap[p])
    /\ \A h \in Handles : IsOpen(handles, h) => _watcherMap[handles[h].path] = h

RdRejected == {i \in DOMAIN rd.inspectors : rd.inspectors[i].state = "rejected"}
RdFulfilled == {i \in DOMAIN rd.inspectors : rd.inspectors[i].state = "fulfilled"}

\* C6: a listing of N names of which K stats fail is answered with N-K
\* entries, one per child whose stat succeeded, in listing order, whatever the
\* order in which the stats completed.
C6_ReaddirStableFilter ==
    (rd.pc = "done" /\ rd.callback # <<>> /\ rd.callback[1].err = "null")
        => LET result == rd.callback[1].result IN
           /\ Len(rd.callback) = 1
           /\ Len(result) = Len(rd.names) - Cardinality(RdRejected)
           /\ \A j \in DOMAIN result :
                 \E i \in RdFulfilled :
                    /\ Cardinality({k \in RdFulfilled : k <= i}) = j
                    /\ result[j].name = rd.names[i]

\* A listing of three names, one stat failed, the stats completed in reverse.
C6_Witness ==
    /\ rd.pc = "done"
    /\ Len(rd.names) = MaxNames
    /\ Cardinality(RdRejected) = 1
    /\ rd.order[1] > rd.order[2]
    /\ rd.inspectors[rd.order[1]].state = "fulfilled"
    /\ rd.inspectors[rd.order[2]].state = "fulfilled"
    /\ Len(rd.callback[1].result) = MaxNames - 1

\* C7: readdir("/tmp/d") (no trailing separator; a is a file of 10 bytes, b's
\* stat fails) stats every child at its path inside the directory and answers
\* exactly the entry of a.
C7_ReaddirNoTrailingSeparator ==
    (rd.pc = "done" /\ rd.path = "/tmp/d" /\ rd.names = <<"a", "b">>
        /\ rd.callback[1].err = "null" /\ rd.inspectors[2].state = "rejected")
        => /\ \A i \in DOMAIN rd.names : rd.targets[i] = ChildPath(rd.path, rd.names[i])
           /\ rd.callback[1].result =
                 <<[name |-> "a", isFile |-> TRUE, size |-> 10,
                    mtime |-> FileTable["/tmp/d/a"].mtime]>>

\* C8: unwatchPath(p) on a path that is not registered raises nothing, calls
\* no close() and leaves the registry as it was.
C8_UnwatchUnregisteredNoOp ==
    [][(last'.op = "unwatchPath" /\ _watcherMap[last'.path] = NoWatcher)
          => /\ _watcherMap' = _watcherMap
             /\ handles' = handles
             /\ closeCalls' = closeCalls
             /\ console' = <<>>
             /\ ~last'.raised]_vars

\* unwatchPath was called on an unregistered path while another path is watched.
C8_Witness ==
    /\ last.op = "unwatchPath"
    /\ last.before[last.path] = NoWatcher
    /\ \E p \in Paths : last.before[p] # NoWatcher /\ _watcherMap[p] = last.before[p]

\* C9: one OS change on a Watched path emits exactly one change event,
\* carrying the path, the event kind and the filename.
C9_OneEventPerChange ==
    (last.op = "fsChange" /\ _watcherMap[last.path] # NoWatcher)
        => emitted = <<[path |-> last.path, event |-> last.event,
                        filename |-> last.filename]>>

\* C10: when the registered watcher of p reports an asynchronous error and the
\* watch is torn down, a change event for p is emitted.
C10_TeardownEmitsChange ==
    (last.op = "watcherError" /\ last.before[last.path] = last.watcher)
        => \E i \in DOMAIN emitted : emitted[i].path = last.path

\* C10, amended: the teardown emits no event; the error is logged with
\* console.error and p's entry is removed.
C10_TeardownIsSilent ==
    (last.op = "watcherError" /\ last.before[last.path] = last.watcher)
        => /\ emitted = <<>>
           /\ \E i \in DOMAIN console : console[i] = [level |-> "error", path |-> last.path]
           /\ _watcherMap[last.path] = NoWatcher

\* The registered watcher of a path reported an error and was torn down.
C10_Witness ==
    /\ last.op = "watcherError"
    /\ last.before[last.path] = last.watcher
    /\ closeCalls[last.watcher] = 1
    /\ _watcherMap[last.path] = NoWatcher

RfSettled == rf.pc # "idle" /\ rf.read.state # "pending" /\ rf.stat.state # "pending"

RfFailures ==
    {q.reason : q \in {q \in {rf.read, rf.stat} : q.state = "rejected"}}

\* C11: readFile answers a result only when the read and the stat both
\* succeeded; when either failed it answers the error of a sub-operation that
\* failed; the callback is called exactly once, with an error or a result.
C11_ReadFileAllOrNothing ==
    /\ Len(rf.callback) <= 1
    /\ RfSettled => Len(rf.callback) = 1
    /\ \A i \in DOMAIN rf.callback :
          /\ rf.callback[i].hasResult <=> rf.callback[i].err = "null"
          /\ rf.callback[i].hasResult
                => rf.read.state = "fulfilled" /\ rf.stat.state = "fulfilled"
          /\ ~rf.callback[i].hasResult => rf.callback[i].err \in RfFailures
    /\ (RfSettled /\ RfFailures # {}) => ~rf.callback[1].hasResult

\* The stat failed first, then the read failed: one callback, with the stat error.
C11_Witness ==
    /\ RfSettled
    /\ rf.order = <<"stat", "read">>
    /\ rf.read.state = "rejected"
    /\ rf.stat.state = "rejected"
    /\ rf.callback = <<[err |-> "stat", hasResult |-> FALSE, result |-> <<>>]>>

RECURSIVE Utf8Encode(_)
\* The bytes a writer produces for a string written as utf8.
Utf8Encode(chars) ==
    IF chars = <<>>
    THEN <<>>
    ELSE IF chars[1] < 128
    THEN <<chars[1]>> \o Utf8Encode(Tail(chars))
    ELSE IF chars[1] < 2048
    THEN <<192 + (chars[1] \div 64), 128 + (chars[1] % 64)>> \o Utf8Encode(Tail(chars))
    ELSE <<224 + (chars[1] \div 4096), 128 + ((chars[1] \div 64) % 64),
           128 + (chars[1] % 64)>> \o Utf8Encode(Tail(chars))

\* The byte sequence is utf8 text.
Utf8Valid(bytes) == \A i \in DOMAIN Utf8Decode(bytes) : Utf8Decode(bytes)[i] # ReplacementChar

\* C12: for a file whose bytes are utf8 text, the data of readFile(path,
\* "utf8") written back as utf8 gives the file's bytes.
C12_Utf8RoundTrip ==
    (rf.encoding = "utf8" /\ rf.callback # <<>> /\ rf.callback[1].hasResult
        /\ Utf8Valid(rf.content))
        => Utf8Encode(rf.callback[1].result.data) = rf.content

\* C20: when the read and the stat succeed and the encoding name is invalid,
\* readFile answers the error of the decode step and no result.
C20_InvalidEncodingFails ==
    (RfSettled /\ rf.read.state = "fulfilled" /\ rf.stat.state = "fulfilled"
        /\ rf.encoding \notin {"utf8", "binary"})
        => /\ Len(rf.callback) = 1
           /\ ~rf.callback[1].hasResult
           /\ rf.callback[1].err = "decode"

\* C13: when close() throws in unwatchPath(p) on a registered path, the error
\* is swallowed (logged, not raised), p's entry is removed and the entries of
\* the other paths are unchanged.
C13_CloseErrorSwallowed ==
    [][(last'.op = "unwatchPath" /\ _watcherMap[last'.path] # NoWatcher /\ last'.threw)
          => /\ ~last'.raised
             /\ console' = <<[level |-> "warn", path |-> last'.path]>>
             /\ _watcherMap'[last'.path] = NoWatcher
             /\ \A q \in Paths \ {last'.path} : _watcherMap'[q] = _watcherMap[q]]_vars

\* close() threw in unwatchPath on a registered path while another is watched.
C13_Witness ==
    /\ last.op = "unwatchPath"
    /\ last.threw
    /\ last.before[last.path] # NoWatcher
    /\ _watcherMap[last.path] = NoWatcher
    /\ \E q \in Paths : q # last.path /\ _watcherMap[q] # NoWatcher

\* C14: when fs.watch fails in watchPath(p) on an unregistered path, the
\* registry is unchanged, p has no entry and nothing is raised.
C14_WatchFailureSwallowed ==
    [][(last'.op = "watchPath" /\ _watcherMap[last'.path] = NoWatcher /\ last'.threw)
          => /\ ~last'.raised
             /\ _watcherMap' = _watcherMap
             /\ handles' = handles
             /\ console' = <<[level |-> "warn", path |-> last'.path]>>]_vars

\* fs.watch threw for an unregistered path while another path is watched.
C14_Witness ==
    /\ last.op = "watchPath"
    /\ last.threw
    /\ _watcherMap[last.path] = NoWatcher
    /\ \E q \in Paths : _watcherMap[q] # NoWatcher

\* C15: when the registered watcher of p reports an error, close() is called
\* on it and p's entry is removed, whether or not close() throws.
C15_ErrorUnwatches ==
    [][(last'.op = "watcherError" /\ _watcherMap[last'.path] = last'.watcher)
          => /\ closeCalls'[last'.watcher] = closeCalls[last'.watcher] + 1
             /\ _watcherMap'[last'.path] = NoWatcher]_vars

\* The registered watcher reported an error and its close() threw.
C15_Witness ==
    /\ last.op = "watcherError"
    /\ last.before[last.path] = last.watcher
    /\ last.threw
    /\ closeCalls[last.watcher] = 1
    /\ _watcherMap[last.path] = NoWatcher

\* C16: an error of a watcher that is no longer the registered one of its
\* path neither closes nor unregisters the watcher registered since.
C16_StaleErrorSparesNewWatcher ==
    (last.op = "watcherError" /\ last.before[last.path] # NoWatcher
        /\ last.before[last.path] # last.watcher)
        => /\ _watcherMap[last.path] = last.before[last.path]
           /\ closeCalls[last.before[last.path]] = 0

\* C17: once both an error of p's registered watcher and an unwatchPath(p)
\* have happened, in either order and with no watchPath(p) in between, close()
\* has been called on that watcher exactly once and p is Unwatched; no watcher
\* is ever closed twice.
C17_ErrorAndUnwatchCloseOnce ==
    /\ \A h \in Handles : closeCalls[h] <= 1
    /\ \A p \in Paths :
          (teardown[p].watcher # NoWatcher /\ teardown[p].kinds = {"unwatch", "error"})
              => /\ closeCalls[teardown[p].watcher] = 1
                 /\ _watcherMap[p] = NoWatcher

\* unwatchPath(p) ran with close() leaving the handle open, then that handle
\* reported an error.
C17_Witness ==
    /\ last.op = "watcherError"
    /\ teardown[last.path].watcher = last.watcher
    /\ teardown[last.path].kinds = {"unwatch", "error"}
    /\ last.before[last.path] = NoWatcher
    /\ closeCalls[last.watcher] = 1

\* C18: when listing the directory fails, the callback receives that error
\* and no entries, and no stat was issued.
C18_ListingFailureIsFatal ==
    rd.listed = "rejected"
        => /\ rd.pc = "done"
           /\ rd.callback = <<[err |-> "readdir", hasResult |-> FALSE, result |-> <<>>]>>
           /\ rd.targets = <<>>
           /\ rd.inspectors = <<>>

\* The listing of a directory failed and the callback was called.
C18_Witness ==
    /\ rd.listed = "rejected"
    /\ rd.path \in DirPaths
    /\ Len(rd.callback) = 1

RdPending == {i \in DOMAIN rd.inspectors : rd.inspectors[i].state = "pending"}

\* C19: readdir issues every stat at once, calls the callback at most once and
\* only when no stat is pending (so never while a stat hangs); when the
\* listing and every stat complete, the callback is eventually called.
C19_ReaddirAwaitsAll ==
    /\ [](/\ Len(rd.callback) <= 1
          /\ rd.pc = "stating"
                => Len(rd.targets) = Len(rd.names) /\ Len(rd.inspectors) = Len(rd.names)
          /\ rd.callback # <<>> => RdPending = {})
    /\ (rd.pc = "listing") ~> (rd.callback # <<>>)

\* Two stats of three have settled, one is pending and the callback was not called.
C19_Witness ==
    /\ rd.pc = "stating"
    /\ Len(rd.names) = MaxNames
    /\ Cardinality(RdPending) = 1
    /\ rd.callback = <<>>

====
